---- MODULE Spec2Model ----
(***************************************************************************)
(* Token-bucket rate limiter (src/src/rate_limiter/token_bucket.py) with   *)
(* its Redis bucket store, the gateway's use of the Decision                *)
(* (src/src/gateway/middleware.py) and the configuration constants.        *)
(*                                                                         *)
(* Numbers.  Time is counted in ticks of 1/TicksPerSec second and tokens   *)
(* in units of 1/TicksPerSec token, so that with an integer rate           *)
(* (tokens per second) the product time_elapsed * rate of the Lua script   *)
(* is exact: (ticks / TicksPerSec) * rate tokens = ticks * rate units.     *)
(* A reset time current_time + tokens_needed / rate is kept as an exact    *)
(* fraction [num, den] of ticks.                                           *)
(***************************************************************************)
EXTENDS Integers, Sequences, FiniteSets, TLC

\* ------------------------------------------------------------------ bounds
TicksPerSec == 2        \* resolution of time and of token amounts
MaxSmallTicks == 2      \* Tick steps of one tick taken in a run
MaxIdle == 1            \* idle periods of REDIS_KEY_TTL seconds in a run
MaxWindow == 3          \* script runs followed by one window of the history
MaxScenarioCalls == 3   \* limiter calls in a run of the scenario
MaxArgCalls == 2        \* limiter calls in a run of callers with own rules
MaxSimpleCalls == 3     \* calls in a run of the limiter without script
MaxGatewayCalls == 3    \* requests in a run of the gateway
MaxKeyCalls == 3        \* calls in a run over several keys
MaxStatusCalls == 3     \* calls in a run of a limiter that does not refill
MaxBoundedCalls == 3    \* calls in a run under the socket timeout
MaxPollTicks == 6       \* ticks a polling caller is followed for
MaxSeparatorCalls == 2  \* calls in a run with separators in the identities
MaxQuotaCalls == 4      \* requests of one client in a run of the gateway

\* --------------------------------------------------------------- constants
REDIS_KEY_TTL == 3600
FAR_FUTURE == 31536000
FAIL_CLOSED == TRUE
IDENTITY_PREFIX_API_KEY == "api_key"
IDENTITY_PREFIX_USER == "user"
IDENTITY_PREFIX_IP == "ip"
IDENTITY_HASH_LENGTH == 16
EXCLUDED_PATHS ==
    {"/health", "/docs", "/openapi.json", "/rate-limit/reset",
     "/rate-limit/status"}
SIMPLE_KEY_TTL == 3600

Procs == {"p1", "p2"}
ClientIds == {"u1"}
GatewayClientIds == {"ip:127.0.0.1", "ip:10.0.0.9"}
IsolationClientIds == {"u1", "u2"}
IsolationRuleIds == {"default", "search"}
SeparatorClientIds == {"ip:10.0.0.1", "ip:10.0.0.1:search"}
SeparatorRuleIds == {"default", "search:default"}
RuleIds == {"default"}

\* Optional[...] arguments: <<>> is None, <<v>> is the value v.
None == <<>>
Some(v) == <<v>>

\* rate_limit:<client_id>:<rule_id>
Key(client_id, rule_id) == "rate_limit:" \o client_id \o ":" \o rule_id

Keys ==
    {Key(c, r) : c \in ClientIds \cup GatewayClientIds \cup IsolationClientIds,
                 r \in RuleIds \cup IsolationRuleIds}
        \cup {Key(c, r) : c \in SeparatorClientIds, r \in SeparatorRuleIds}

\* What HMGET returns for a key without a record: both fields nil.
Absent == [present |-> FALSE]

Min(a, b) == IF a <= b THEN a ELSE b

\* Python int(): truncation toward zero of the fraction n / d (d > 0).
IntDiv(n, d) == IF n >= 0 THEN n \div d ELSE -((-n) \div d)

\* int(x) of an amount x given in units of 1/TicksPerSec.
IntOf(units) == IntDiv(units, TicksPerSec)

\* `value or default`: None and 0 are both falsy in Python.
OrDefault(opt, default) ==
    IF opt = None THEN default
    ELSE IF opt[1] = 0 THEN default ELSE opt[1]

VARIABLES
    clock,             \* wall clock, in ticks (time.time())
    ticks,             \* small Tick steps taken (bound)
    idles,             \* idle periods taken (bound)
    default_rate,      \* TokenBucketRateLimiter.default_rate, tokens per second
    default_capacity,  \* TokenBucketRateLimiter.default_capacity, tokens
    script,            \* TRUE once the Lua script is registered
    rate_limiter,      \* TRUE once RateLimiterService.rate_limiter is set
    store,             \* Redis: key -> Absent or [present, tokens, last_refill, ttl]
    pc,                \* per caller: "idle" or "called" (script sent)
    frame,             \* per caller in is_allowed: its resolved arguments
    budget,            \* calls the run may still start: None is no limit
    history,           \* the histories the run records: "last", "window", "both"
    last,              \* history: the call that returned last, with its result
    win                \* history: a window of consecutive script runs on one key

vars == <<clock, ticks, idles, default_rate, default_capacity, script,
          rate_limiter, store, pc, frame, budget, history, last, win>>

NoFrame == [op |-> "none"]
NoWindow == [active |-> FALSE]

\* ------------------------------------------------- the atomic Lua procedure
\* Amounts are in units of 1/TicksPerSec token, times in ticks.

BucketTokens_ZeroWhenAbsent(bucket_data, capacity) ==
    IF bucket_data.present THEN bucket_data.tokens ELSE 0

\* tonumber(bucket_data[1]) or capacity
BucketTokens(bucket_data, capacity) ==
    IF bucket_data.present THEN bucket_data.tokens
    ELSE capacity * TicksPerSec

\* tonumber(bucket_data[2]) or current_time
BucketLastRefill(bucket_data, current_time) ==
    IF bucket_data.present THEN bucket_data.last_refill ELSE current_time

RefillTokens_NoClamp(tokens, last_refill, rate, capacity, current_time) ==
    tokens + (current_time - last_refill) * rate

RefillTokens_NoRefill(tokens, last_refill, rate, capacity, current_time) ==
    Min(capacity * TicksPerSec, tokens)

\* tokens = math.min(capacity, tokens + time_elapsed * rate)
RefillTokens(tokens, last_refill, rate, capacity, current_time) ==
    LET time_elapsed == current_time - last_refill
        tokens_to_add == time_elapsed * rate
    IN  Min(capacity * TicksPerSec, tokens + tokens_to_add)

Consume_Nothing(tokens, requested) == tokens

\* tokens = tokens - tokens_requested
Consume(tokens, requested) == tokens - requested

Written_KeepsLastRefill(tokens, last_refill, current_time, ttl) ==
    [present |-> TRUE, tokens |-> tokens, last_refill |-> last_refill,
     ttl |-> ttl]

\* A record written without EXPIRE: TTL reports -1 for it.
Written_NoExpire(tokens, last_refill, current_time, ttl) ==
    [present |-> TRUE, tokens |-> tokens, last_refill |-> current_time,
     ttl |-> -1]

\* A record whose amount is cut to whole tokens.
Written_Truncated(tokens, last_refill, current_time, ttl) ==
    [present |-> TRUE, tokens |-> IntOf(tokens) * TicksPerSec,
     last_refill |-> current_time, ttl |-> ttl]

\* HMSET key tokens <tokens> last_refill <current_time>; EXPIRE key <ttl>
Written(tokens, last_refill, current_time, ttl) ==
    [present |-> TRUE, tokens |-> tokens, last_refill |-> current_time,
     ttl |-> ttl]

ResetTime_Product(tokens, rate, requested, current_time) ==
    IF rate <= 0
    THEN [num |-> current_time + FAR_FUTURE * TicksPerSec, den |-> 1]
    ELSE [num |-> current_time + (requested - tokens) * rate, den |-> 1]

\* The reset time of a denied request, a fraction num / den of ticks:
\* current_time + 31536000 when rate <= 0, else
\* current_time + tokens_needed / rate.
ResetTime(tokens, rate, requested, current_time) ==
    LET tokens_needed == requested - tokens
    IN  IF rate <= 0
        THEN [num |-> current_time + FAR_FUTURE * TicksPerSec, den |-> 1]
        ELSE [num |-> current_time * rate + tokens_needed, den |-> rate]

\* A script whose denied branch persists the amount it found with the new
\* timestamp: the refill since the last write is dropped.
LuaScript_DeniedDropsRefill(bucket_data, rate, capacity, tokens_requested, current_time, ttl) ==
    LET last_refill == BucketLastRefill(bucket_data, current_time)
        found == BucketTokens(bucket_data, capacity)
        tokens == RefillTokens(found, last_refill, rate, capacity,
                               current_time)
        requested == tokens_requested * TicksPerSec
    IN  IF tokens >= requested
        THEN LET left == Consume(tokens, requested)
             IN  [reply |-> [allowed |-> 1,
                             tokens |-> left,
                             used |-> capacity * TicksPerSec - left,
                             has_reset |-> FALSE,
                             reset_time |-> [num |-> 0, den |-> 1]],
                  write |-> Written(left, last_refill, current_time, ttl)]
        ELSE [reply |-> [allowed |-> 0,
                         tokens |-> tokens,
                         used |-> capacity * TicksPerSec - tokens,
                         has_reset |-> TRUE,
                         reset_time |-> ResetTime(tokens, rate, requested,
                                                  current_time)],
              write |-> Written(found, last_refill, current_time, ttl)]

\* The script of TokenBucketRateLimiter.lua_script run on the record
\* bucket_data of its key.  Returns the reply (allowed, tokens,
\* capacity - tokens and, when denied, reset_time) and the record written.
LuaScript(bucket_data, rate, capacity, tokens_requested, current_time, ttl) ==
    LET last_refill == BucketLastRefill(bucket_data, current_time)
        tokens == RefillTokens(BucketTokens(bucket_data, capacity),
                               last_refill, rate, capacity, current_time)
        requested == tokens_requested * TicksPerSec
    IN  IF tokens >= requested
        THEN LET left == Consume(tokens, requested)
             IN  [reply |-> [allowed |-> 1,
                             tokens |-> left,
                             used |-> capacity * TicksPerSec - left,
                             has_reset |-> FALSE,
                             reset_time |-> [num |-> 0, den |-> 1]],
                  write |-> Written(left, last_refill, current_time, ttl)]
        ELSE [reply |-> [allowed |-> 0,
                         tokens |-> tokens,
                         used |-> capacity * TicksPerSec - tokens,
                         has_reset |-> TRUE,
                         reset_time |-> ResetTime(tokens, rate, requested,
                                                  current_time)],
              write |-> Written(tokens, last_refill, current_time, ttl)]

\* int(reset_ts) for a reset time given as a fraction of ticks.
IntOfTime(t) == IntDiv(t.num, t.den * TicksPerSec)

Response_NextSecondAlways(reply, capacity, current_time) ==
    [passed |-> (reply.allowed # 0),
     limit |-> capacity,
     remaining |-> IntOf(reply.tokens),
     resetTimeEpoch |-> IntDiv(current_time + TicksPerSec, TicksPerSec),
     resetTime |-> IntDiv(current_time + TicksPerSec, TicksPerSec)]

\* The response is_allowed builds from the script's reply.
Response(reply, capacity, current_time) ==
    LET allowed == (reply.allowed # 0)
        reset_ts == IF ~allowed /\ reply.has_reset THEN reply.reset_time
                    ELSE [num |-> current_time + TicksPerSec, den |-> 1]
    IN  [passed |-> allowed,
         limit |-> capacity,
         remaining |-> IntOf(reply.tokens),
         resetTimeEpoch |-> IntOfTime(reset_ts),
         resetTime |-> IntOfTime(reset_ts)]

Fallback_Denies(capacity, current_time) ==
    [passed |-> FALSE,
     limit |-> capacity,
     remaining |-> 0,
     resetTimeEpoch |-> IntDiv(current_time + TicksPerSec, TicksPerSec),
     resetTime |-> IntDiv(current_time + TicksPerSec, TicksPerSec)]

\* The fallback is_allowed returns when the store call raises.
Fallback(capacity, current_time) ==
    [passed |-> TRUE,
     limit |-> capacity,
     remaining |-> capacity,
     resetTimeEpoch |-> IntDiv(current_time + TicksPerSec, TicksPerSec),
     resetTime |-> IntDiv(current_time + TicksPerSec, TicksPerSec)]

\* The rate-limit headers of a response of the gateway, as str() of the
\* fields of the result (X-RateLimit-Processing-Time, a measurement, is left
\* out).
Headers(result) ==
    ("X-RateLimit-Limit" :> ToString(result.limit))
        @@ ("X-RateLimit-Remaining" :> ToString(result.remaining))
        @@ ("X-RateLimit-Reset" :> ToString(result.resetTime))

NoHeaders == [h \in {} |-> ""]

Dispatch_ForwardsDenied(raised, result) ==
    IF raised
    THEN [status |-> 503, forwarded |-> FALSE, headers |-> NoHeaders,
          body |-> Some([error |-> "Service Unavailable"])]
    ELSE [status |-> 200, forwarded |-> TRUE, headers |-> Headers(result),
          body |-> None]

Dispatch_FailOpen(raised, result) ==
    IF raised
    THEN [status |-> 200, forwarded |-> TRUE, headers |-> NoHeaders,
          body |-> None]
    ELSE IF result.passed
    THEN [status |-> 200, forwarded |-> TRUE, headers |-> Headers(result),
          body |-> None]
    ELSE [status |-> 429, forwarded |-> FALSE, headers |-> Headers(result),
          body |-> Some([error |-> "Rate limit exceeded",
                         resetTime |-> result.resetTime,
                         limit |-> result.limit,
                         remaining |-> result.remaining])]

\* What RateLimitMiddleware.dispatch does with the outcome of the check on a
\* path that is not excluded: 200 is the downstream handler's answer (the
\* request was forwarded), whose body is not modelled.
Dispatch(raised, result) ==
    IF raised
    THEN [status |-> 503, forwarded |-> FALSE, headers |-> NoHeaders,
          body |-> Some([error |-> "Service Unavailable"])]
    ELSE IF result.passed
    THEN [status |-> 200, forwarded |-> TRUE, headers |-> Headers(result),
          body |-> None]
    ELSE [status |-> 429, forwarded |-> FALSE, headers |-> Headers(result),
          body |-> Some([error |-> "Rate limit exceeded",
                         resetTime |-> result.resetTime,
                         limit |-> result.limit,
                         remaining |-> result.remaining])]

\* The response to a request whose check returned result; None when
\* is_allowed was called directly, without the gateway.
AfterCheck(path, result) ==
    IF path = None THEN None ELSE Some(Dispatch(FALSE, result))

\* ------------------------------------------------------ history: the window
\* win follows a run of consecutive script executions on one key that carry
\* the same rule and non-decreasing timestamps: t0 and tlast are the first
\* and the last timestamp, n the executions, admitted the total cost
\* admitted, fresh whether the first found no record, unit whether all cost 1
\* and expired whether the record expired in between; reset whether a request
\* to /rate-limit/reset deleted the record in between; found is the bucket
\* (tokens, last_refill) the first execution read.  A window may start at
\* any execution and must start anew when the run is broken.
WindowBroken(key, f) ==
    \/ ~win.active
    \/ win.n >= MaxWindow
    \/ win.key # key
    \/ win.rate # f.rate
    \/ win.capacity # f.capacity
    \/ f.current_time < win.tlast

WindowAfter(key, f, bucket_data, reply, restart) ==
    LET cost == IF reply.allowed # 0 THEN f.tokens_requested ELSE 0
    IN  IF history \notin {"window", "both"} THEN NoWindow
        ELSE IF restart \/ WindowBroken(key, f)
        THEN [active |-> TRUE, key |-> key, rate |-> f.rate,
              capacity |-> f.capacity, t0 |-> f.current_time,
              tlast |-> f.current_time, n |-> 1, admitted |-> cost,
              fresh |-> ~bucket_data.present,
              found |-> [tokens |-> BucketTokens(bucket_data, f.capacity),
                         last_refill |-> BucketLastRefill(bucket_data,
                                                          f.current_time)],
              unit |-> (f.tokens_requested = 1), expired |-> FALSE,
              reset |-> FALSE]
        ELSE [win EXCEPT !.tlast = f.current_time, !.n = @ + 1,
                         !.admitted = @ + cost,
                         !.unit = @ /\ (f.tokens_requested = 1)]

\* ------------------------------------------------------------------- state
Init(rates, capacities, histories, calls) ==
    /\ clock = 0
    /\ ticks = 0
    /\ idles = 0
    /\ default_rate \in rates
    /\ default_capacity \in capacities
    /\ script = FALSE
    /\ rate_limiter = FALSE
    /\ store = [k \in Keys |-> Absent]
    /\ pc = [p \in Procs |-> "idle"]
    /\ frame = [p \in Procs |-> NoFrame]
    /\ budget = calls
    /\ history \in histories
    /\ last = NoFrame
    /\ win = NoWindow

Ready(p) == pc[p] = "idle" /\ (IF budget = None THEN TRUE ELSE budget[1] > 0)

\* A call is started.
Started == budget' = IF budget = None THEN None ELSE Some(budget[1] - 1)

\* The history of the call that returned last, when the run records it.
Returned(rec) == last' = IF history \in {"last", "both"} THEN rec ELSE NoFrame

\* ------------------------------------------------------------------- time
\* time.time() advances by one tick.
Tick ==
    /\ ticks < MaxSmallTicks
    /\ clock' = clock + 1
    /\ ticks' = ticks + 1
    /\ UNCHANGED <<budget, idles, default_rate, default_capacity,
                   rate_limiter, script, store, pc, frame, history, last, win>>

\* REDIS_KEY_TTL seconds pass with no call in flight (a store round trip is
\* cut off after one second): every record, written at least that long ago,
\* has expired.
IdlePeriod ==
    /\ idles < MaxIdle
    /\ \A p \in Procs : pc[p] = "idle"
    /\ clock' = clock + REDIS_KEY_TTL * TicksPerSec
    /\ idles' = idles + 1
    /\ store' = [k \in Keys |-> Absent]
    /\ win' = IF win.active THEN [win EXCEPT !.expired = TRUE] ELSE win
    /\ UNCHANGED <<budget, ticks, default_rate, default_capacity,
                   rate_limiter, script, pc, frame, history, last>>

\* -------------------------------------------------------------- is_allowed
\* is_allowed up to the await of the script: lazy registration, rule
\* resolution, key and time.time().
IsAllowedCall(p, client_id, rule_id, tokens_requested, rate, capacity) ==
    /\ Ready(p)
    /\ Started
    /\ script' = TRUE
    /\ frame' = [frame EXCEPT ![p] =
           [op |-> "is_allowed",
            key |-> Key(client_id, rule_id),
            rate |-> OrDefault(rate, default_rate),
            capacity |-> OrDefault(capacity, default_capacity),
            rate_arg |-> rate,
            capacity_arg |-> capacity,
            tokens_requested |-> tokens_requested,
            current_time |-> clock,
            path |-> None]]
    /\ pc' = [pc EXCEPT ![p] = "called"]
    /\ UNCHANGED <<clock, ticks, idles, default_rate, default_capacity,
                   rate_limiter, store, history, last, win>>

\* register_script raises in initialize(), outside the try of is_allowed: the
\* exception reaches the caller.
IsAllowedInitializeRaises(p) ==
    /\ Ready(p)
    /\ Started
    /\ ~script
    /\ Returned([op |-> "is_allowed", outcome |-> "raised"])
    /\ UNCHANGED <<clock, ticks, idles, default_rate, default_capacity,
                   rate_limiter, script, store, pc, frame, history, win>>

\* The call of p returns rec to its caller.
Return(p, rec) ==
    /\ Returned(rec)
    /\ frame' = [frame EXCEPT ![p] = NoFrame]
    /\ pc' = [pc EXCEPT ![p] = "idle"]

ScriptReturns_StaleRead(p, restart) ==
    /\ pc[p] = "called"
    /\ LET f == frame[p]
           r == LuaScript(Absent, f.rate, f.capacity, f.tokens_requested,
                          f.current_time, REDIS_KEY_TTL)
       IN  /\ store' = [store EXCEPT ![f.key] = r.write]
           /\ Return(p, [op |-> "is_allowed", key |-> f.key, rate |-> f.rate,
                         capacity |-> f.capacity,
                         rate_arg |-> f.rate_arg,
                         capacity_arg |-> f.capacity_arg,
                         tokens_requested |-> f.tokens_requested,
                         current_time |-> f.current_time,
                         outcome |-> "response",
                         bucket_data |-> store[f.key],
                         reply |-> r.reply,
                         result |-> Response(r.reply, f.capacity,
                                             f.current_time),
                         path |-> f.path,
                         response |->
                             AfterCheck(f.path,
                                        Response(r.reply, f.capacity,
                                                 f.current_time))])
           /\ win' = WindowAfter(f.key, f, store[f.key], r.reply, restart)
    /\ UNCHANGED <<budget, clock, ticks, idles, default_rate,
                   default_capacity, rate_limiter, script, history>>

\* The store runs the script atomically and the reply reaches the caller.
ScriptReturns(p, restart) ==
    /\ pc[p] = "called"
    /\ LET f == frame[p]
           r == LuaScript(store[f.key], f.rate, f.capacity, f.tokens_requested,
                          f.current_time, REDIS_KEY_TTL)
       IN  /\ store' = [store EXCEPT ![f.key] = r.write]
           /\ Return(p, [op |-> "is_allowed", key |-> f.key, rate |-> f.rate,
                         capacity |-> f.capacity,
                         rate_arg |-> f.rate_arg,
                         capacity_arg |-> f.capacity_arg,
                         tokens_requested |-> f.tokens_requested,
                         current_time |-> f.current_time,
                         outcome |-> "response",
                         bucket_data |-> store[f.key],
                         reply |-> r.reply,
                         result |-> Response(r.reply, f.capacity,
                                             f.current_time),
                         path |-> f.path,
                         response |->
                             AfterCheck(f.path,
                                        Response(r.reply, f.capacity,
                                                 f.current_time))])
           /\ win' = WindowAfter(f.key, f, store[f.key], r.reply, restart)
    /\ UNCHANGED <<budget, clock, ticks, idles, default_rate,
                   default_capacity, rate_limiter, script, history>>

\* The store call raises before the script has run (connection error).
ScriptFails(p) ==
    /\ pc[p] = "called"
    /\ LET f == frame[p]
       IN  Return(p, [op |-> "is_allowed", key |-> f.key, rate |-> f.rate,
                      capacity |-> f.capacity,
                      rate_arg |-> f.rate_arg,
                      capacity_arg |-> f.capacity_arg,
                      tokens_requested |-> f.tokens_requested,
                      current_time |-> f.current_time,
                      outcome |-> "fallback",
                      result |-> Fallback(f.capacity, f.current_time),
                      path |-> f.path,
                      response |->
                          AfterCheck(f.path,
                                     Fallback(f.capacity, f.current_time))])
    /\ UNCHANGED <<budget, clock, ticks, idles, default_rate,
                   default_capacity, rate_limiter, script, store, history, win>>

\* A timeout that reaches the caller of is_allowed as an exception.
ScriptTimesOut_Raises(p, restart) ==
    /\ pc[p] = "called"
    /\ LET f == frame[p]
           r == LuaScript(store[f.key], f.rate, f.capacity, f.tokens_requested,
                          f.current_time, REDIS_KEY_TTL)
       IN  /\ store' = [store EXCEPT ![f.key] = r.write]
           /\ Return(p, [op |-> "is_allowed", key |-> f.key,
                         current_time |-> f.current_time,
                         outcome |-> "raised"])
           /\ win' = WindowAfter(f.key, f, store[f.key], r.reply, restart)
    /\ UNCHANGED <<budget, clock, ticks, idles, default_rate, default_capacity,
                   rate_limiter, script, history>>

\* The store runs the script but the caller's socket times out first: the
\* effect is applied and the caller takes the except branch.
ScriptTimesOut(p, restart) ==
    /\ pc[p] = "called"
    /\ LET f == frame[p]
           r == LuaScript(store[f.key], f.rate, f.capacity, f.tokens_requested,
                          f.current_time, REDIS_KEY_TTL)
       IN  /\ store' = [store EXCEPT ![f.key] = r.write]
           /\ Return(p, [op |-> "is_allowed", key |-> f.key, rate |-> f.rate,
                         capacity |-> f.capacity,
                         rate_arg |-> f.rate_arg,
                         capacity_arg |-> f.capacity_arg,
                         tokens_requested |-> f.tokens_requested,
                         current_time |-> f.current_time,
                         outcome |-> "fallback",
                         result |-> Fallback(f.capacity, f.current_time),
                         path |-> f.path,
                         response |->
                             AfterCheck(f.path,
                                        Fallback(f.capacity, f.current_time))])
           /\ win' = WindowAfter(f.key, f, store[f.key], r.reply, restart)
    /\ UNCHANGED <<budget, clock, ticks, idles, default_rate,
                   default_capacity, rate_limiter, script, history>>

\* ------------------------------------------------------- get_bucket_status
StatusOf_EmptyWhenAbsent(bucket_data, now) ==
    [tokens |-> IF bucket_data.present THEN bucket_data.tokens ELSE 0,
     capacity |-> default_capacity,
     rate |-> default_rate,
     last_refill |-> IF bucket_data.present THEN bucket_data.last_refill
                     ELSE now,
     has_reset |-> TRUE,
     resetTimeEpoch |-> IntDiv(now + TicksPerSec, TicksPerSec)]

\* The projection without the branch for default_rate <= 0: the division
\* by a rate of 0 raises and the except branch answers.
StatusOf_Unguarded(bucket_data, now) ==
    LET tokens == IF bucket_data.present THEN bucket_data.tokens
                  ELSE default_capacity * TicksPerSec
        last_refill == IF bucket_data.present THEN bucket_data.last_refill
                       ELSE now
        current_tokens == Min(default_capacity * TicksPerSec,
                              tokens + (now - last_refill) * default_rate)
    IN  IF current_tokens < TicksPerSec /\ default_rate = 0
        THEN [tokens |-> default_capacity * TicksPerSec,
              capacity |-> default_capacity,
              rate |-> default_rate,
              last_refill |-> now,
              has_reset |-> FALSE,
              resetTimeEpoch |-> 0]
        ELSE [tokens |-> current_tokens,
              capacity |-> default_capacity,
              rate |-> default_rate,
              last_refill |-> last_refill,
              has_reset |-> TRUE,
              resetTimeEpoch |->
                  IF current_tokens >= TicksPerSec
                  THEN IntDiv(now + TicksPerSec, TicksPerSec)
                  ELSE IntOfTime([num |-> now * default_rate
                                           + (TicksPerSec - current_tokens),
                                  den |-> default_rate])]

\* The projection get_bucket_status computes from what HMGET returned.
StatusOf(bucket_data, now) ==
    LET tokens == IF bucket_data.present THEN bucket_data.tokens
                  ELSE default_capacity * TicksPerSec
        last_refill == IF bucket_data.present THEN bucket_data.last_refill
                       ELSE now
        time_elapsed == now - last_refill
        tokens_to_add == time_elapsed * default_rate
        current_tokens == Min(default_capacity * TicksPerSec,
                              tokens + tokens_to_add)
        reset_epoch ==
            IF default_rate <= 0
            THEN [num |-> now + FAR_FUTURE * TicksPerSec, den |-> 1]
            ELSE IF current_tokens >= TicksPerSec
                 THEN [num |-> now + TicksPerSec, den |-> 1]
                 ELSE [num |-> now * default_rate
                                 + (TicksPerSec - current_tokens),
                       den |-> default_rate]
    IN  [tokens |-> current_tokens,
         capacity |-> default_capacity,
         rate |-> default_rate,
         last_refill |-> last_refill,
         has_reset |-> TRUE,
         resetTimeEpoch |-> IntOfTime(reset_epoch)]

GetBucketStatus_WritesBack(p, client_id, rule_id) ==
    /\ Ready(p)
    /\ Started
    /\ LET key == Key(client_id, rule_id)
           st == StatusOf(store[key], clock)
       IN  /\ Returned([op |-> "get_bucket_status", key |-> key,
                        outcome |-> "response",
                        bucket_data |-> store[key],
                        result |-> st])
           /\ store' = [store EXCEPT ![key] =
                  Written(st.tokens, clock, clock, REDIS_KEY_TTL)]
    /\ UNCHANGED <<clock, ticks, idles, default_rate, default_capacity,
                   rate_limiter, script, pc, frame, history, win>>

\* get_bucket_status: HMGET, then the projection at the time of the read.
GetBucketStatus(p, client_id, rule_id) ==
    /\ Ready(p)
    /\ Started
    /\ LET key == Key(client_id, rule_id)
       IN  Returned([op |-> "get_bucket_status", key |-> key,
                     outcome |-> "response",
                     bucket_data |-> store[key],
                     result |-> StatusOf(store[key], clock)])
    /\ UNCHANGED <<clock, ticks, idles, default_rate, default_capacity,
                   rate_limiter, script, store, pc, frame, history, win>>

\* HMGET raises: the except branch reports a full bucket.
GetBucketStatusFails(p, client_id, rule_id) ==
    /\ Ready(p)
    /\ Started
    /\ Returned([op |-> "get_bucket_status", key |-> Key(client_id, rule_id),
                 outcome |-> "fallback",
                 result |-> [tokens |-> default_capacity * TicksPerSec,
                             capacity |-> default_capacity,
                             rate |-> default_rate,
                             last_refill |-> clock,
                             has_reset |-> FALSE,
                             resetTimeEpoch |-> 0]])
    /\ UNCHANGED <<clock, ticks, idles, default_rate, default_capacity,
                   rate_limiter, script, store, pc, frame, history, win>>

\* ------------------------------------------------------------ reset_bucket
ResetBucket_Refills(p, client_id, rule_id) ==
    /\ Ready(p)
    /\ Started
    /\ LET key == Key(client_id, rule_id)
       IN  /\ store' = [store EXCEPT ![key] =
                  Written(default_capacity * TicksPerSec, clock, clock,
                          REDIS_KEY_TTL)]
           /\ Returned([op |-> "reset_bucket", key |-> key,
                        outcome |-> "response",
                        bucket_data |-> store[key],
                        result |-> TRUE])
           /\ win' = IF win.active /\ win.key = key THEN NoWindow ELSE win
    /\ UNCHANGED <<clock, ticks, idles, default_rate, default_capacity,
                   rate_limiter, script, pc, frame, history>>

ResetBucket_AllRules(p, client_id, rule_id) ==
    /\ Ready(p)
    /\ Started
    /\ LET key == Key(client_id, rule_id)
       IN  /\ store' = [k \in Keys |->
                           IF \E r \in RuleIds \cup IsolationRuleIds :
                                  k = Key(client_id, r)
                           THEN Absent ELSE store[k]]
           /\ Returned([op |-> "reset_bucket", key |-> key,
                        outcome |-> "response",
                        bucket_data |-> store[key],
                        result |-> TRUE])
           /\ win' = IF win.active /\ win.key = key THEN NoWindow ELSE win
    /\ UNCHANGED <<clock, ticks, idles, default_rate, default_capacity,
                   rate_limiter, script, pc, frame, history>>

\* reset_bucket: DELETE key, return True.
ResetBucket(p, client_id, rule_id) ==
    /\ Ready(p)
    /\ Started
    /\ LET key == Key(client_id, rule_id)
       IN  /\ store' = [store EXCEPT ![key] = Absent]
           /\ Returned([op |-> "reset_bucket", key |-> key,
                        outcome |-> "response",
                        bucket_data |-> store[key],
                        result |-> TRUE])
           /\ win' = IF win.active /\ win.key = key THEN NoWindow ELSE win
    /\ UNCHANGED <<clock, ticks, idles, default_rate, default_capacity,
                   rate_limiter, script, pc, frame, history>>

\* DELETE raises: reset_bucket logs and returns False.
ResetBucketFails(p, client_id, rule_id) ==
    /\ Ready(p)
    /\ Started
    /\ Returned([op |-> "reset_bucket", key |-> Key(client_id, rule_id),
                 outcome |-> "fallback",
                 result |-> FALSE])
    /\ UNCHANGED <<clock, ticks, idles, default_rate, default_capacity,
                   rate_limiter, script, store, pc, frame, history, win>>

\* ----------------------------------- SimpleTokenBucketRateLimiter.is_allowed
\* The variant without script: HMGET, the computation in the caller, then a
\* pipeline of HMSET and EXPIRE.  pc is "hmget" while the read is awaited
\* and "execute" while the pipeline is awaited.

\* is_allowed up to the await of hmget.
SimpleIsAllowedCall(p, client_id, rule_id, tokens_requested, rate, capacity) ==
    /\ Ready(p)
    /\ Started
    /\ frame' = [frame EXCEPT ![p] =
           [op |-> "simple_is_allowed",
            key |-> Key(client_id, rule_id),
            rate |-> OrDefault(rate, default_rate),
            capacity |-> OrDefault(capacity, default_capacity),
            rate_arg |-> rate,
            capacity_arg |-> capacity,
            tokens_requested |-> tokens_requested,
            current_time |-> clock,
            bucket_data |-> Absent]]
    /\ pc' = [pc EXCEPT ![p] = "hmget"]
    /\ UNCHANGED <<clock, ticks, idles, default_rate, default_capacity,
                   rate_limiter, script, store, history, last, win>>

\* The store answers HMGET; the caller computes and sends the pipeline.
SimpleHmget(p) ==
    /\ pc[p] = "hmget"
    /\ frame' = [frame EXCEPT ![p].bucket_data = store[frame[p].key]]
    /\ pc' = [pc EXCEPT ![p] = "execute"]
    /\ UNCHANGED <<clock, ticks, idles, default_rate, default_capacity,
                   rate_limiter, script, store, budget, history, last, win>>

\* What the caller computes from the bucket it read: the reply in the shape
\* of the script's, the record it writes, and whether the division by rate
\* of the denied branch raises.
SimpleComputed(f) ==
    LET current_tokens ==
            RefillTokens(BucketTokens(f.bucket_data, f.capacity),
                         BucketLastRefill(f.bucket_data, f.current_time),
                         f.rate, f.capacity, f.current_time)
        requested == f.tokens_requested * TicksPerSec
        allowed == current_tokens >= requested
        left == IF allowed THEN current_tokens - requested ELSE current_tokens
    IN  [reply |-> [allowed |-> IF allowed THEN 1 ELSE 0,
                    tokens |-> left,
                    used |-> f.capacity * TicksPerSec - left,
                    has_reset |-> ~allowed,
                    reset_time |->
                        IF allowed \/ f.rate = 0 THEN [num |-> 0, den |-> 1]
                        ELSE [num |-> f.current_time * f.rate
                                          + (requested - left),
                              den |-> f.rate]],
         raises |-> ~allowed /\ f.rate = 0,
         write |-> [present |-> TRUE, tokens |-> left,
                    last_refill |-> f.current_time, ttl |-> SIMPLE_KEY_TTL]]

SimpleExecute_Atomic(p, restart) ==
    /\ pc[p] = "execute"
    /\ LET f == [frame[p] EXCEPT !.bucket_data = store[frame[p].key]]
           c == SimpleComputed(f)
       IN  /\ store' = [store EXCEPT ![f.key] = c.write]
           /\ Return(p, [op |-> "simple_is_allowed", key |-> f.key,
                         rate |-> f.rate, capacity |-> f.capacity,
                         tokens_requested |-> f.tokens_requested,
                         current_time |-> f.current_time,
                         outcome |-> IF c.raises THEN "fallback"
                                     ELSE "response",
                         bucket_data |-> f.bucket_data,
                         overwritten |-> store[f.key],
                         reply |-> c.reply,
                         result |-> IF c.raises
                                    THEN Fallback(f.capacity, f.current_time)
                                    ELSE Response(c.reply, f.capacity,
                                                  f.current_time)])
           /\ win' = WindowAfter(f.key, f, f.bucket_data, c.reply, restart)
    /\ UNCHANGED <<budget, clock, ticks, idles, default_rate,
                   default_capacity, rate_limiter, script, history>>

\* The store runs the pipeline: the record computed from the bucket read
\* earlier replaces whatever the key holds now, and the caller returns.
SimpleExecute(p, restart) ==
    /\ pc[p] = "execute"
    /\ LET f == frame[p]
           c == SimpleComputed(f)
       IN  /\ store' = [store EXCEPT ![f.key] = c.write]
           /\ Return(p, [op |-> "simple_is_allowed", key |-> f.key,
                         rate |-> f.rate, capacity |-> f.capacity,
                         tokens_requested |-> f.tokens_requested,
                         current_time |-> f.current_time,
                         outcome |-> IF c.raises THEN "fallback"
                                     ELSE "response",
                         bucket_data |-> f.bucket_data,
                         overwritten |-> store[f.key],
                         reply |-> c.reply,
                         result |-> IF c.raises
                                    THEN Fallback(f.capacity, f.current_time)
                                    ELSE Response(c.reply, f.capacity,
                                                  f.current_time)])
           /\ win' = WindowAfter(f.key, f, f.bucket_data, c.reply, restart)
    /\ UNCHANGED <<budget, clock, ticks, idles, default_rate,
                   default_capacity, rate_limiter, script, history>>

\* hmget or the pipeline raises: the except branch returns the fallback.
SimpleFails(p) ==
    /\ pc[p] \in {"hmget", "execute"}
    /\ LET f == frame[p]
       IN  Return(p, [op |-> "simple_is_allowed", key |-> f.key,
                      rate |-> f.rate, capacity |-> f.capacity,
                      tokens_requested |-> f.tokens_requested,
                      current_time |-> f.current_time,
                      outcome |-> "fallback",
                      result |-> Fallback(f.capacity, f.current_time)])
    /\ UNCHANGED <<budget, clock, ticks, idles, default_rate,
                   default_capacity, rate_limiter, script, store, history, win>>

\* ------------------------------------------------------ extract_client_id
\* A request is [api_key, authorization, forwarded_for, real_ip, client]:
\* the X-API-Key, Authorization, X-Forwarded-For and X-Real-IP headers
\* (None when the header is missing) and the peer's host.  An Authorization
\* header is [scheme, token]: its first characters, up to and including the
\* blank, and the token that follows.  A token is [wellformed, alg,
\* signed_with, payload] with payload [exp, user_id, sub], exp in seconds.
JWT_SECRET == "secret"

\* bool(x) of an optional string: None and "" are falsy.
Truthy(opt) == opt # None /\ opt[1] # ""

\* s.startswith(prefix)
StartsWith(s, prefix) ==
    Len(s) >= Len(prefix) /\ SubSeq(s, 1, Len(prefix)) = prefix

\* The index of the first character c of s at or after i, 0 when none.
RECURSIVE Find(_, _, _)
Find(s, c, i) ==
    IF i > Len(s) THEN 0
    ELSE IF SubSeq(s, i, i) = c THEN i
    ELSE Find(s, c, i + 1)

\* s.split(sep)[0]
SplitFirst(s, sep) ==
    LET i == Find(s, sep, 1)
    IN  IF i = 0 THEN s ELSE SubSeq(s, 1, i - 1)

\* s.strip() for blanks
RECURSIVE Strip(_)
Strip(s) ==
    IF Len(s) = 0 THEN s
    ELSE IF SubSeq(s, 1, 1) = " " THEN Strip(SubSeq(s, 2, Len(s)))
    ELSE IF SubSeq(s, Len(s), Len(s)) = " "
    THEN Strip(SubSeq(s, 1, Len(s) - 1))
    ELSE s

Sha256Hex_Timed(s) ==
    IF clock = 0
    THEN "be2974546978e3739e6d6da85c4be9f334ce32df2b9fd4b6ff1b55c0d57e9d44"
    ELSE "7c36b0a9dedde119c75165957c6c9c187e65df1ee5db87c4c58ad503ad88cbe3"

\* hashlib.sha256(s.encode()).hexdigest(), for the credentials of the model.
Sha256Hex(s) ==
    CASE s = "key-1" ->
           "be2974546978e3739e6d6da85c4be9f334ce32df2b9fd4b6ff1b55c0d57e9d44"
      [] s = "key-2" ->
           "7c36b0a9dedde119c75165957c6c9c187e65df1ee5db87c4c58ad503ad88cbe3"

\* jwt.decode(token, key, algorithms=["HS256"]) at time now: the payload, or
\* the exception raised.
Decode(token, key, now) ==
    IF ~token.wellformed THEN [raised |-> "DecodeError"]
    ELSE IF token.alg # "HS256" THEN [raised |-> "InvalidAlgorithmError"]
    ELSE IF token.signed_with # key
    THEN [raised |-> "InvalidSignatureError"]
    ELSE IF token.payload.exp # None
              /\ token.payload.exp[1] * TicksPerSec <= now
    THEN [raised |-> "ExpiredSignatureError"]
    ELSE [raised |-> "none", payload |-> token.payload]

Caught_DecodeErrorOnly(exception) == exception = "DecodeError"

\* except jwt.InvalidTokenError: the exceptions that are InvalidTokenErrors.
Caught(exception) ==
    exception \in {"DecodeError", "InvalidAlgorithmError",
                   "InvalidSignatureError", "ExpiredSignatureError"}

GetClientIp_RealFirst(request) ==
    IF Truthy(request.real_ip) THEN request.real_ip[1]
    ELSE IF Truthy(request.forwarded_for)
    THEN Strip(SplitFirst(request.forwarded_for[1], ","))
    ELSE IF request.client # None THEN request.client[1]
    ELSE "unknown"

\* _get_client_ip
GetClientIp(request) ==
    IF Truthy(request.forwarded_for)
    THEN Strip(SplitFirst(request.forwarded_for[1], ","))
    ELSE IF Truthy(request.real_ip) THEN request.real_ip[1]
    ELSE IF request.client # None THEN request.client[1]
    ELSE "unknown"

\* Method 1: what extract_client_id returns for the X-API-Key header, None
\* when it goes on to the next method.
ByApiKey(request) ==
    IF Truthy(request.api_key)
    THEN Some([raised |-> FALSE,
               client_id |-> IDENTITY_PREFIX_API_KEY \o ":"
                   \o SubSeq(Sha256Hex(request.api_key[1]), 1,
                             IDENTITY_HASH_LENGTH)])
    ELSE None

\* Method 2: what extract_client_id returns for the Authorization header,
\* None when it goes on to the next method.
ByBearer(request, now) ==
    LET auth_header == request.authorization
    IN  IF auth_header # None /\ StartsWith(auth_header[1].scheme, "Bearer ")
        THEN LET d == Decode(auth_header[1].token, JWT_SECRET, now)
             IN  IF d.raised = "none"
                 THEN LET user_id == IF Truthy(d.payload.user_id)
                                     THEN d.payload.user_id
                                     ELSE d.payload.sub
                      IN  IF Truthy(user_id)
                          THEN Some([raised |-> FALSE,
                                     client_id |-> IDENTITY_PREFIX_USER
                                         \o ":" \o user_id[1]])
                          ELSE None
                 ELSE IF Caught(d.raised) THEN None
                 ELSE Some([raised |-> TRUE, client_id |-> ""])
        ELSE None

\* Method 3: the address.
ByIp(request) ==
    [raised |-> FALSE,
     client_id |-> IDENTITY_PREFIX_IP \o ":" \o GetClientIp(request)]

FirstMatch_BearerFirst(api_key, bearer, ip) ==
    IF bearer # None THEN bearer[1]
    ELSE IF api_key # None THEN api_key[1]
    ELSE ip

\* The order of the methods in extract_client_id: the first that returns.
FirstMatch(api_key, bearer, ip) ==
    IF api_key # None THEN api_key[1]
    ELSE IF bearer # None THEN bearer[1]
    ELSE ip

\* extract_client_id(request) called at time now: [raised, client_id].
ExtractClientId(request, now) ==
    FirstMatch(ByApiKey(request), ByBearer(request, now), ByIp(request))

\* The requests of the model.
Payloads ==
    {[exp |-> None, user_id |-> Some("alice"), sub |-> None],
     [exp |-> Some(1), user_id |-> Some("canonical-user-42"), sub |-> None],
     [exp |-> None, user_id |-> None, sub |-> Some("bob")],
     [exp |-> None, user_id |-> Some("alice"), sub |-> Some("bob")],
     [exp |-> None, user_id |-> Some(""), sub |-> None],
     [exp |-> None, user_id |-> None, sub |-> None]}

Tokens ==
    {[wellformed |-> TRUE, alg |-> "HS256", signed_with |-> JWT_SECRET,
      payload |-> pl] : pl \in Payloads}
    \cup
    {[wellformed |-> w, alg |-> a, signed_with |-> k,
      payload |-> [exp |-> None, user_id |-> Some("alice"), sub |-> None]] :
         <<w, a, k>> \in {<<FALSE, "HS256", JWT_SECRET>>,
                          <<TRUE, "none", JWT_SECRET>>,
                          <<TRUE, "HS256", "forged">>}}

Requests ==
    [api_key : {None, Some(""), Some("key-1")},
     authorization : {None} \cup {Some([scheme |-> "Bearer ", token |-> t]) :
                                     t \in Tokens}
                            \cup {Some([scheme |-> "Basic ", token |-> t]) :
                                     t \in {u \in Tokens :
                                                u.payload.sub # None}},
     forwarded_for : {None, Some(" 10.0.0.1 , 10.0.0.2")},
     real_ip : {None, Some("10.0.0.9")},
     client : {None, Some("127.0.0.1")}]

\* One call of extract_client_id, which runs without awaiting.  The history
\* keeps, next to the call, the previous call when that one was for the same
\* request.
ResolveIdentity(request) ==
    /\ IF budget = None THEN TRUE ELSE budget[1] > 0
    /\ Started
    /\ Returned([op |-> "extract_client_id",
                 request |-> request,
                 now |-> clock,
                 result |-> ExtractClientId(request, clock),
                 before |-> IF last.op = "extract_client_id"
                                  /\ last.request = request
                            THEN Some([now |-> last.now,
                                       result |-> last.result])
                            ELSE None])
    /\ UNCHANGED <<clock, ticks, idles, default_rate, default_capacity,
                   rate_limiter, script, store, pc, frame, history, win>>

\* ------------------------------------------------------------- the gateway
\* RateLimiterService.initialize (the startup event): the store answers the
\* ping, the limiter is constructed and registers its script.
ServiceInitialize ==
    /\ ~script
    /\ rate_limiter' = TRUE
    /\ script' = TRUE
    /\ UNCHANGED <<clock, ticks, idles, default_rate, default_capacity, store,
                   pc, frame, budget, history, last, win>>

\* initialize raises at the registration of the script, after the limiter
\* was assigned.  (When the ping raises, the service stays as constructed.)
ServiceInitializeRaises ==
    /\ ~rate_limiter
    /\ rate_limiter' = TRUE
    /\ UNCHANGED <<clock, ticks, idles, default_rate, default_capacity, script,
                   store, pc, frame, budget, history, last, win>>

Excluded_Nothing(path) == FALSE

\* request.url.path in self.excluded_paths
Excluded(path) == path \in EXCLUDED_PATHS

\* The paths and the requests of the model: the five excluded paths and the
\* root endpoint; anonymous requests from two addresses.
Paths == EXCLUDED_PATHS \cup {"/"}

GatewayRequests ==
    {q \in Requests :
        /\ q.api_key = None
        /\ q.authorization = None
        /\ q.forwarded_for = None
        /\ q.client = Some("127.0.0.1")}

\* What the handler of an excluded path answers.  failing is whether the
\* store raises on the call the handler makes.
Handler(path, request, failing) ==
    LET key == Key(ExtractClientId(request, clock).client_id, "default")
    IN  IF path \in {"/rate-limit/status", "/rate-limit/reset"}
                /\ ~rate_limiter
        THEN [status |-> 500, body |-> None, deleted |-> None]
        ELSE IF path = "/rate-limit/status"
        THEN [status |-> 200,
              body |-> Some(IF failing
                            THEN [tokens |-> default_capacity * TicksPerSec,
                                  capacity |-> default_capacity,
                                  rate |-> default_rate,
                                  last_refill |-> clock,
                                  has_reset |-> FALSE,
                                  resetTimeEpoch |-> 0]
                            ELSE StatusOf(store[key], clock)),
              deleted |-> None]
        ELSE IF path = "/rate-limit/reset"
        THEN [status |-> 200,
              body |-> Some([success |-> ~failing]),
              deleted |-> IF failing THEN None ELSE Some(key)]
        ELSE [status |-> 200, body |-> None, deleted |-> None]

\* dispatch on an excluded path: call_next without the check, then the
\* handler of the path.
DispatchExcluded(p, path, request, failing) ==
    /\ Ready(p)
    /\ Started
    /\ Excluded(path)
    /\ LET h == Handler(path, request, failing)
       IN  /\ store' = [k \in Keys |->
                           IF h.deleted = Some(k) THEN Absent ELSE store[k]]
           /\ win' = IF win.active /\ h.deleted = Some(win.key)
                     THEN [win EXCEPT !.reset = TRUE] ELSE win
           /\ Returned([op |-> "dispatch", path |-> Some(path),
                        request |-> request,
                        checked |-> FALSE,
                        raised |-> FALSE,
                        failing |-> failing \/ ~rate_limiter,
                        response |-> Some([status |-> h.status,
                                           forwarded |-> TRUE,
                                           headers |-> NoHeaders,
                                           body |-> h.body])])
    /\ UNCHANGED <<clock, ticks, idles, default_rate, default_capacity, script,
                   rate_limiter, pc, frame, history>>

\* dispatch on any other path, up to the await of the script in is_allowed
\* (rule "default", cost 1, the limiter's rate and capacity).
DispatchCheck(p, path, request) ==
    /\ Ready(p)
    /\ Started
    /\ ~Excluded(path)
    /\ rate_limiter
    /\ ~ExtractClientId(request, clock).raised
    /\ script' = TRUE
    /\ frame' = [frame EXCEPT ![p] =
           [op |-> "is_allowed",
            key |-> Key(ExtractClientId(request, clock).client_id, "default"),
            rate |-> OrDefault(None, default_rate),
            capacity |-> OrDefault(None, default_capacity),
            rate_arg |-> None,
            capacity_arg |-> None,
            tokens_requested |-> 1,
            current_time |-> clock,
            path |-> Some(path)]]
    /\ pc' = [pc EXCEPT ![p] = "called"]
    /\ UNCHANGED <<clock, ticks, idles, default_rate, default_capacity,
                   rate_limiter, store, history, last, win>>

\* check_rate_limit raises: the service has no limiter ("not_initialized"),
\* or the limiter's lazy registration of the script raises
\* ("register_script").  The except branch of dispatch answers.
DispatchCheckRaises(p, path, request, cause) ==
    /\ Ready(p)
    /\ Started
    /\ ~Excluded(path)
    /\ IF cause = "not_initialized" THEN ~rate_limiter
       ELSE rate_limiter /\ ~script
    /\ Returned([op |-> "dispatch", path |-> Some(path),
                 request |-> request,
                 checked |-> TRUE,
                 raised |-> TRUE,
                 cause |-> cause,
                 failing |-> TRUE,
                 response |-> Some(Dispatch(TRUE, NoFrame))])
    /\ UNCHANGED <<clock, ticks, idles, default_rate, default_capacity, script,
                   rate_limiter, store, pc, frame, history, win>>

\* RateLimiterService.check_rate_limit(request, rule_id) up to the await of
\* the script in is_allowed (cost 1, the limiter's rate and capacity).
CheckRateLimit(p, request, rule_id) ==
    /\ Ready(p)
    /\ Started
    /\ rate_limiter
    /\ ~ExtractClientId(request, clock).raised
    /\ script' = TRUE
    /\ frame' = [frame EXCEPT ![p] =
           [op |-> "is_allowed",
            client_id |-> ExtractClientId(request, clock).client_id,
            rule_id |-> rule_id,
            key |-> Key(ExtractClientId(request, clock).client_id, rule_id),
            rate |-> OrDefault(None, default_rate),
            capacity |-> OrDefault(None, default_capacity),
            rate_arg |-> None,
            capacity_arg |-> None,
            tokens_requested |-> 1,
            current_time |-> clock,
            path |-> None]]
    /\ pc' = [pc EXCEPT ![p] = "called"]
    /\ UNCHANGED <<clock, ticks, idles, default_rate, default_capacity,
                   rate_limiter, store, history, last, win>>

\* check_rate_limit on a service without limiter raises HTTPException(500).
CheckRateLimitRaises(p) ==
    /\ Ready(p)
    /\ Started
    /\ ~rate_limiter
    /\ Returned([op |-> "check_rate_limit", outcome |-> "raised"])
    /\ UNCHANGED <<clock, ticks, idles, default_rate, default_capacity, script,
                   rate_limiter, store, pc, frame, history, win>>

\* Requests whose X-Forwarded-For header holds an address, with and without
\* a separator in it.
SeparatorRequests ==
    {[api_key |-> None, authorization |-> None, forwarded_for |-> Some(x),
      real_ip |-> None, client |-> Some("127.0.0.1")] :
         x \in {"10.0.0.1", "10.0.0.1:search"}}

\* ---------------------------------------------------------- specifications
\* One step of the system, for calls with costs drawn from costs and the
\* optional rate and capacity drawn from rates and capacities.
NextOver(costs, rates, capacities) ==
    \/ Tick
    \/ IdlePeriod
    \/ \E p \in Procs, c \in ClientIds, r \in RuleIds, n \in costs,
          rate \in rates, capacity \in capacities :
           IsAllowedCall(p, c, r, n, rate, capacity)
    \/ \E p \in Procs : IsAllowedInitializeRaises(p)
    \/ \E p \in Procs, restart \in BOOLEAN : ScriptReturns(p, restart)
    \/ \E p \in Procs : ScriptFails(p)
    \/ \E p \in Procs, restart \in BOOLEAN : ScriptTimesOut(p, restart)
    \/ \E p \in Procs, c \in ClientIds, r \in RuleIds : GetBucketStatus(p, c, r)
    \/ \E p \in Procs, c \in ClientIds, r \in RuleIds :
           GetBucketStatusFails(p, c, r)
    \/ \E p \in Procs, c \in ClientIds, r \in RuleIds : ResetBucket(p, c, r)
    \/ \E p \in Procs, c \in ClientIds, r \in RuleIds : ResetBucketFails(p, c, r)

\* Spec: callers that keep the documented contract (positive costs) under
\* the default rule, for small rules, rate 0 included.
DefaultRates == {0, 1}
DefaultCapacities == {1, 2}
Costs == {1, 2}
RateArgs == {None}
CapacityArgs == {None}

Next == NextOver(Costs, RateArgs, CapacityArgs)

Spec ==
    Init(DefaultRates, DefaultCapacities, {"last", "window"}, None)
        /\ [][Next]_vars

\* SpecScenario: the rule of the production preset, 100 tokens per second
\* with capacity 100, and calls of cost 1 and 100.
ScenarioRates == {100}
ScenarioCapacities == {100}
ScenarioCosts == {1, 100}

NextScenario == NextOver(ScenarioCosts, RateArgs, CapacityArgs)

SpecScenario ==
    Init(ScenarioRates, ScenarioCapacities, {"both"}, Some(MaxScenarioCalls))
        /\ [][NextScenario]_vars

\* SpecCallerArgs: callers that supply a rule of their own, 0 included, and
\* any integer cost, over a few calls.
ArgDefaultRates == {0, 1}
ArgDefaultCapacities == {2}
ArgCosts == {-1, 1}
ArgRates == {None, Some(0), Some(2)}
ArgCapacities == {None, Some(0), Some(1)}

NextCallerArgs == NextOver(ArgCosts, ArgRates, ArgCapacities)

SpecCallerArgs ==
    Init(ArgDefaultRates, ArgDefaultCapacities, {"last"}, Some(MaxArgCalls))
        /\ [][NextCallerArgs]_vars

\* SpecIdentity: calls of extract_client_id for the requests of the model,
\* as time passes.
NextIdentity ==
    \/ Tick
    \/ IdlePeriod
    \/ \E request \in Requests : ResolveIdentity(request)

SpecIdentity ==
    Init(ScenarioRates, ScenarioCapacities, {"last"}, None)
        /\ [][NextIdentity]_vars

\* SpecSimple: a few concurrent calls of the limiter without script.
SimpleRates == {0, 1}
SimpleCapacities == {1}
SimpleCosts == {1}

NextSimple ==
    \/ Tick
    \/ IdlePeriod
    \/ \E p \in Procs, c \in ClientIds, r \in RuleIds, n \in SimpleCosts :
           SimpleIsAllowedCall(p, c, r, n, None, None)
    \/ \E p \in Procs : SimpleHmget(p)
    \/ \E p \in Procs, restart \in BOOLEAN : SimpleExecute(p, restart)
    \/ \E p \in Procs : SimpleFails(p)

SpecSimple ==
    Init(SimpleRates, SimpleCapacities, {"both"}, Some(MaxSimpleCalls))
        /\ [][NextSimple]_vars

\* SpecGateway: requests through the gateway, from construction on.
GatewayRates == {0, 1}
GatewayCapacities == {1}

NextGateway ==
    \/ Tick
    \/ IdlePeriod
    \/ ServiceInitialize
    \/ ServiceInitializeRaises
    \/ \E p \in Procs, path \in Paths, q \in GatewayRequests,
          failing \in BOOLEAN : DispatchExcluded(p, path, q, failing)
    \/ \E p \in Procs, path \in Paths, q \in GatewayRequests :
           DispatchCheck(p, path, q)
    \/ \E p \in Procs, path \in Paths, q \in GatewayRequests,
          cause \in {"not_initialized", "register_script"} :
           DispatchCheckRaises(p, path, q, cause)
    \/ \E p \in Procs, restart \in BOOLEAN : ScriptReturns(p, restart)
    \/ \E p \in Procs : ScriptFails(p)
    \/ \E p \in Procs, restart \in BOOLEAN : ScriptTimesOut(p, restart)

SpecGateway ==
    Init(GatewayRates, GatewayCapacities, {"last"}, Some(MaxGatewayCalls))
        /\ [][NextGateway]_vars

\* SpecKeys: two clients under two rules each, four buckets.
KeyRates == {1}
KeyCapacities == {1}
KeyCosts == {1}

NextKeys ==
    \/ Tick
    \/ IdlePeriod
    \/ \E p \in Procs, c \in IsolationClientIds, r \in IsolationRuleIds,
          n \in KeyCosts : IsAllowedCall(p, c, r, n, None, None)
    \/ \E p \in Procs, restart \in BOOLEAN : ScriptReturns(p, restart)
    \/ \E p \in Procs : ScriptFails(p)
    \/ \E p \in Procs, c \in IsolationClientIds, r \in IsolationRuleIds :
           GetBucketStatus(p, c, r)
    \/ \E p \in Procs, c \in IsolationClientIds, r \in IsolationRuleIds :
           ResetBucket(p, c, r)

SpecKeys ==
    Init(KeyRates, KeyCapacities, {"last"}, Some(MaxKeyCalls))
        /\ [][NextKeys]_vars

\* SpecStatus: a limiter whose default rate is 0 or negative.
StatusRates == {-1, 0}
StatusCapacities == {1}
StatusCosts == {1}

NextStatus == NextOver(StatusCosts, RateArgs, CapacityArgs)

SpecStatus ==
    Init(StatusRates, StatusCapacities, {"last"}, Some(MaxStatusCalls))
        /\ [][NextStatus]_vars

\* SpecBounded: the limiter on the client RateLimiterService.initialize
\* builds, whose socket operations are cut off after one second
\* (socket_connect_timeout=1, socket_timeout=1, retry_on_timeout=False): a
\* script call that was sent ends, by the reply, by an error or by the
\* timeout.
BoundedRates == {0, 1}
BoundedCapacities == {1}
BoundedCosts == {1}

Completes(p) ==
    \/ \E restart \in BOOLEAN : ScriptReturns(p, restart)
    \/ ScriptFails(p)
    \/ \E restart \in BOOLEAN : ScriptTimesOut(p, restart)

NextBounded ==
    \/ Tick
    \/ \E p \in Procs, c \in ClientIds, r \in RuleIds, n \in BoundedCosts :
           IsAllowedCall(p, c, r, n, None, None)
    \/ \E p \in Procs : Completes(p)

SpecBounded ==
    /\ Init(BoundedRates, BoundedCapacities, {"last"}, Some(MaxBoundedCalls))
    /\ [][NextBounded]_vars
    /\ \A p \in Procs : WF_vars(Completes(p))

\* SpecPolling: one caller that re-issues one request on one key, each time
\* at a later timestamp, while the store answers; nobody else uses the key.
PollRates == {1}
PollCapacities == {1, 2}
PollCosts == {1, 2}

\* time.time() advances by one tick while the caller waits.
Wait ==
    /\ ticks < MaxPollTicks
    /\ clock' = clock + 1
    /\ ticks' = ticks + 1
    /\ UNCHANGED <<budget, idles, default_rate, default_capacity,
                   rate_limiter, script, store, pc, frame, history, last, win>>

\* The caller issues its request: the first time with any cost, then the
\* same request again once the clock has advanced.
Poll(n) ==
    /\ IF last.op = "none" THEN TRUE
       ELSE n = last.tokens_requested /\ clock > last.current_time
    /\ IsAllowedCall("p1", "u1", "default", n, None, None)

PollAnswered == \E restart \in BOOLEAN : ScriptReturns("p1", restart)

NextPolling ==
    \/ Wait
    \/ \E n \in PollCosts : Poll(n)
    \/ PollAnswered

SpecPolling ==
    /\ Init(PollRates, PollCapacities, {"last"}, None)
    /\ [][NextPolling]_vars
    /\ WF_vars(Wait)
    /\ WF_vars(\E n \in PollCosts : Poll(n))
    /\ WF_vars(PollAnswered)

\* SpecSeparator: checks through the service for identities and rules that
\* contain the separator of the key.
SeparatorRates == {1}
SeparatorCapacities == {1}

NextSeparator ==
    \/ Tick
    \/ ServiceInitialize
    \/ \E p \in Procs, q \in SeparatorRequests, r \in SeparatorRuleIds :
           CheckRateLimit(p, q, r)
    \/ \E p \in Procs : CheckRateLimitRaises(p)
    \/ \E p \in Procs, restart \in BOOLEAN : ScriptReturns(p, restart)
    \/ \E p \in Procs : ScriptFails(p)

SpecSeparator ==
    Init(SeparatorRates, SeparatorCapacities, {"last"},
         Some(MaxSeparatorCalls))
        /\ [][NextSeparator]_vars

\* SpecQuota: one client identity sends requests through the gateway, the
\* admin endpoints included, while the store is reachable and within the
\* TTL of its record.
QuotaRates == {0, 1}
QuotaCapacities == {1}
QuotaRequests == {q \in GatewayRequests : q.real_ip = None}

NextQuota ==
    \/ Tick
    \/ ServiceInitialize
    \/ \E p \in Procs, path \in Paths, q \in QuotaRequests :
           DispatchExcluded(p, path, q, FALSE)
    \/ \E p \in Procs, path \in Paths, q \in QuotaRequests :
           DispatchCheck(p, path, q)
    \/ \E p \in Procs, restart \in BOOLEAN : ScriptReturns(p, restart)

SpecQuota ==
    Init(QuotaRates, QuotaCapacities, {"window"}, Some(MaxQuotaCalls))
        /\ [][NextQuota]_vars

\* ------------------------------------------------------------------ claims
\* The call that returned last is a check answered by the store.
CheckAnswered == last.op = "is_allowed" /\ last.outcome = "response"

\* The call that returned last is a check whose store call failed.
CheckFellBack == last.op = "is_allowed" /\ last.outcome = "fallback"

\* No idle period has passed since the call that returned last was made.
NotExpiredSince == clock < last.current_time + REDIS_KEY_TTL * TicksPerSec

\* C1: checks of cost 1 on one key that start from a fresh bucket and all
\* carry the same timestamp admit at most capacity of them, in whatever
\* order the store serializes the callers.
NoOverAdmission ==
    (win.active /\ win.fresh /\ win.unit /\ win.tlast = win.t0)
        => win.admitted <= win.capacity

\* More same-timestamp checks than the capacity ran, one caller still in
\* flight with that timestamp, and exactly capacity were admitted.
NoOverAdmissionWitness ==
    /\ win.active /\ win.fresh /\ win.unit /\ win.tlast = win.t0
    /\ win.n > win.capacity
    /\ win.admitted = win.capacity
    /\ \E p \in Procs : pc[p] = "called" /\ frame[p].current_time = win.t0

\* C2: the tokens value persisted by a check is never below 0 and never
\* above the capacity passed to that check.
CapacityInvariant ==
    /\ \A k \in Keys : store[k].present => store[k].tokens >= 0
    /\ CheckAnswered =>
           /\ last.reply.tokens >= 0
           /\ last.reply.tokens <= last.capacity * TicksPerSec

\* C3: a check passes exactly when min(capacity, tokens + elapsed * rate)
\* is at least tokensRequested; it then persists (that amount less
\* tokensRequested, now) and reports passed, limit = capacity and the tokens
\* left as remaining (the script exactly, the Decision as an integer).
CheckPassesIffEnough ==
    CheckAnswered =>
        LET b == last.bucket_data
            refilled == IF b.present
                        THEN Min(last.capacity * TicksPerSec,
                                 b.tokens + (last.current_time - b.last_refill)
                                                * last.rate)
                        ELSE last.capacity * TicksPerSec
            requested == last.tokens_requested * TicksPerSec
        IN  /\ last.result.passed <=> (refilled >= requested)
            /\ last.result.passed =>
                   /\ last.result.limit = last.capacity
                   /\ last.reply.tokens = refilled - requested
                   /\ last.result.remaining = IntOf(refilled - requested)
                   /\ NotExpiredSince =>
                          /\ store[last.key].present
                          /\ store[last.key].tokens = refilled - requested
                          /\ store[last.key].last_refill = last.current_time

\* A check of cost 2 passed after a refill and its record is in the store.
CheckPassesWitness ==
    /\ CheckAnswered
    /\ last.result.passed
    /\ last.tokens_requested = 2
    /\ last.bucket_data.present
    /\ last.bucket_data.tokens < 2 * TicksPerSec
    /\ store[last.key].present
    /\ store[last.key].last_refill = last.current_time

FailClosedDenies ==
    (FAIL_CLOSED /\ CheckFellBack) => ~Dispatch(FALSE, last.result).forwarded

\* C6 as stated: over consecutive checks on one key with non-decreasing
\* timestamps in [t0, t1], from any state, the admitted cost is at most
\* capacity + rate * (t1 - t0).
AdmissionBound ==
    win.active =>
        win.admitted * TicksPerSec
            <= win.capacity * TicksPerSec + win.rate * (win.tlast - win.t0)

\* C6 as amended: the bound holds while the key's record is neither reset
\* nor expired between the checks.
AdmissionBoundWithoutExpiry ==
    (win.active /\ ~win.expired) =>
        win.admitted * TicksPerSec
            <= win.capacity * TicksPerSec + win.rate * (win.tlast - win.t0)

\* Checks over a window of positive length admitted the whole bound.
AdmissionBoundWitness ==
    /\ win.active /\ ~win.expired
    /\ win.n >= 2
    /\ win.rate > 0
    /\ win.tlast > win.t0
    /\ win.admitted * TicksPerSec
           = win.capacity * TicksPerSec + win.rate * (win.tlast - win.t0)

\* C7: a check on a key without a record sees (capacity, now): a request of
\* at most capacity passes with remaining = capacity - tokensRequested and
\* creates the record; a larger one is denied with capacity tokens.
ImplicitCreation ==
    (CheckAnswered /\ ~last.bucket_data.present) =>
        /\ last.tokens_requested <= last.capacity =>
               /\ last.result.passed
               /\ last.result.remaining = last.capacity - last.tokens_requested
        /\ last.tokens_requested > last.capacity =>
               /\ ~last.result.passed
               /\ last.result.remaining = last.capacity
        /\ NotExpiredSince =>
               /\ store[last.key].present
               /\ store[last.key].last_refill = last.current_time
               /\ store[last.key].tokens
                      = IF last.result.passed
                        THEN (last.capacity - last.tokens_requested)
                                 * TicksPerSec
                        ELSE last.capacity * TicksPerSec

\* The first check on a key passed and created its record.
ImplicitCreationWitness ==
    /\ CheckAnswered
    /\ ~last.bucket_data.present
    /\ last.result.passed
    /\ last.result.remaining = last.capacity - last.tokens_requested
    /\ store[last.key].present

\* C8: with rate 100 and capacity 100, check(100) on a fresh key passes with
\* remaining 0; check(1) at the same timestamp is denied with remaining 0 and
\* reset time now + 0.01 (reported as int(now + 0.01)); check(1) one second
\* later passes with remaining 99; and in general an exhausted bucket read
\* at least one second later holds min(capacity, elapsed * rate) >= 1 token.
RefillScenario ==
    (CheckAnswered /\ last.rate = 100 /\ last.capacity = 100) =>
        LET b == last.bucket_data
            now == last.current_time
            t == last.reply
            available == t.tokens + (IF last.result.passed
                                     THEN last.tokens_requested * TicksPerSec
                                     ELSE 0)
        IN  /\ (~b.present /\ last.tokens_requested = 100) =>
                   /\ last.result.passed
                   /\ last.result.remaining = 0
            /\ (b.present /\ b.tokens = 0 /\ b.last_refill = now
                  /\ last.tokens_requested = 1) =>
                   /\ ~last.result.passed
                   /\ last.result.remaining = 0
                   /\ (t.reset_time.num - now * t.reset_time.den) * 100
                          = t.reset_time.den * TicksPerSec
                   /\ last.result.resetTime
                          = IntDiv(100 * now + TicksPerSec, 100 * TicksPerSec)
            /\ (b.present /\ b.tokens = 0 /\ now = b.last_refill + TicksPerSec
                  /\ last.tokens_requested = 1) =>
                   /\ last.result.passed
                   /\ last.result.remaining = 99
            /\ (b.present /\ b.tokens = 0
                  /\ now >= b.last_refill + TicksPerSec) =>
                   /\ available >= TicksPerSec
                   /\ available = Min(last.capacity * TicksPerSec,
                                      (now - b.last_refill) * last.rate)

\* The three checks of the scenario ran in a row: cost 100 admitted on the
\* fresh key, cost 1 denied at the same timestamp, cost 1 admitted one
\* second later with 99 remaining.
RefillScenarioWitness ==
    /\ win.active /\ win.fresh /\ win.n = 3
    /\ win.admitted = 101
    /\ win.tlast = win.t0 + TicksPerSec
    /\ CheckAnswered
    /\ last.result.passed
    /\ last.tokens_requested = 1
    /\ last.result.remaining = 99
    /\ last.bucket_data.present
    /\ last.bucket_data.tokens = 0
    /\ last.bucket_data.last_refill = win.t0

\* C9: reset_bucket answered by the store returns True whether or not the
\* key had a record and leaves no record; the next check on a key without a
\* record sees a full bucket.
IdempotentReset ==
    /\ (last.op = "reset_bucket" /\ last.outcome = "response") =>
           /\ last.result = TRUE
           /\ ~store[last.key].present
    /\ (CheckAnswered /\ ~last.bucket_data.present) =>
           last.reply.tokens + (IF last.result.passed
                                THEN last.tokens_requested * TicksPerSec
                                ELSE 0)
               = last.capacity * TicksPerSec

\* A reset of a key that had no record returned True.
IdempotentResetWitness ==
    /\ last.op = "reset_bucket"
    /\ last.outcome = "response"
    /\ ~last.bucket_data.present
    /\ last.result = TRUE
    /\ ~store[last.key].present
    /\ clock > 0

\* C10: no step of get_bucket_status changes the store: tokens, last_refill,
\* existence and TTL of every key stay as they were.
StatusReadOnly ==
    [][(\E p \in Procs, c \in ClientIds, r \in RuleIds :
            GetBucketStatus(p, c, r) \/ GetBucketStatusFails(p, c, r))
           => store' = store]_vars

\* A status call projected a refill of a consumed bucket and the record is
\* still as the call read it.
StatusReadOnlyWitness ==
    /\ last.op = "get_bucket_status"
    /\ last.outcome = "response"
    /\ last.bucket_data.present
    /\ last.result.tokens > last.bucket_data.tokens
    /\ store[last.key] = last.bucket_data

\* The call that returned last is a check that returned a Decision.
CheckDecided == CheckAnswered \/ CheckFellBack

\* C11: every Decision of is_allowed has limit equal to the capacity used
\* for the call and an integer remaining with 0 <= remaining <= limit.
DecisionBounds ==
    CheckDecided =>
        /\ last.result.limit = last.capacity
        /\ last.result.remaining \in Int
        /\ 0 <= last.result.remaining
        /\ last.result.remaining <= last.result.limit

\* C12: every Decision carries resetTime; for a passed check it is
\* int(now + 1) and for a denied check it is int() of the reset time of the
\* script: now + 31536000 when rate <= 0, else now + tokens_needed / rate.
ResetTimePresent ==
    CheckDecided =>
        /\ "resetTime" \in DOMAIN last.result
        /\ last.result.passed =>
               last.result.resetTime
                   = IntDiv(last.current_time + TicksPerSec, TicksPerSec)
        /\ ~last.result.passed =>
               LET b == last.bucket_data
                   now == last.current_time
                   refilled == IF b.present
                               THEN Min(last.capacity * TicksPerSec,
                                        b.tokens + (now - b.last_refill)
                                                       * last.rate)
                               ELSE last.capacity * TicksPerSec
                   needed == last.tokens_requested * TicksPerSec - refilled
               IN  last.result.resetTime
                       = IF last.rate <= 0
                         THEN IntDiv(now + FAR_FUTURE * TicksPerSec,
                                     TicksPerSec)
                         ELSE IntDiv(now * last.rate + needed,
                                     last.rate * TicksPerSec)

\* A denied check reported a reset time later than the next second.
ResetTimePresentWitness ==
    /\ CheckAnswered
    /\ ~last.result.passed
    /\ last.rate > 0
    /\ last.result.resetTime
           > IntDiv(last.current_time + TicksPerSec, TicksPerSec)

\* C14: a check that asks for more than the capacity is denied with a reset
\* time at the far-future horizon.
OversizedDenied ==
    (CheckAnswered /\ last.tokens_requested > last.capacity) =>
        /\ ~last.result.passed
        /\ last.result.resetTime
               >= IntDiv(last.current_time + FAR_FUTURE * TicksPerSec,
                         TicksPerSec)

\* The rate and the capacity the caller of the last check put in force: the
\* value it supplied, the installed default for a value it did not supply.
CallerRate ==
    IF last.rate_arg = None THEN default_rate ELSE last.rate_arg[1]

CallerCapacity ==
    IF last.capacity_arg = None THEN default_capacity
    ELSE last.capacity_arg[1]

\* C13: when the rate in force is <= 0, as the default rule or as the
\* per-call rule, a denied check returns a Decision whose resetTime is at
\* least one year after now.
MisconfiguredRate ==
    (CheckAnswered /\ ~last.result.passed /\ CallerRate <= 0) =>
        last.result.resetTime
            >= IntDiv(last.current_time + FAR_FUTURE * TicksPerSec,
                      TicksPerSec)

\* C15: a check with a negative tokensRequested yields no admitted Decision
\* and leaves the record of its key as it was, never above the capacity.
NegativeRequestRejected ==
    (CheckAnswered /\ last.tokens_requested < 0) =>
        /\ ~last.result.passed
        /\ last.reply.tokens <= last.capacity * TicksPerSec
        /\ NotExpiredSince => store[last.key] = last.bucket_data

\* C16: the rate and the capacity a check hands to the script, and the
\* limit it reports, are the values the caller supplied, 0 included, and the
\* installed defaults only for values not supplied.
RuleResolution ==
    CheckDecided =>
        /\ last.rate = CallerRate
        /\ last.capacity = CallerCapacity
        /\ last.result.limit = CallerCapacity

\* The call that returned last is a call of extract_client_id.
Extracted == last.op = "extract_client_id"

\* The request carries a bearer token that verifies at time now: well
\* formed, HS256, signed with the service's secret and not expired.
Verifiable(request, now) ==
    /\ request.authorization # None
    /\ request.authorization[1].scheme = "Bearer "
    /\ LET t == request.authorization[1].token
       IN  /\ t.wellformed
           /\ t.alg = "HS256"
           /\ t.signed_with = JWT_SECRET
           /\ t.payload.exp # None => now < t.payload.exp[1] * TicksPerSec

\* The verifiable token of the request carries a non-empty user_id or sub.
HasSubject(request) ==
    LET pl == request.authorization[1].token.payload
    IN  Truthy(pl.user_id) \/ Truthy(pl.sub)

\* C17: the first method that matches wins: a presented (non-empty) API key
\* gives an api_key: identity whatever else the request carries; otherwise a
\* verifiable bearer token with a subject gives a user: identity; otherwise
\* the identity is ip: and the address.
IdentityPrecedence ==
    Extracted =>
        LET r == last.request
            id == last.result.client_id
        IN  IF Truthy(r.api_key)
            THEN StartsWith(id, "api_key:")
            ELSE IF Verifiable(r, last.now) /\ HasSubject(r)
            THEN StartsWith(id, "user:")
            ELSE id = "ip:" \o GetClientIp(r)

\* A request with an API key, a verifiable bearer token with a subject and
\* addresses was resolved to its api_key: identity.
IdentityPrecedenceWitness ==
    /\ Extracted
    /\ Truthy(last.request.api_key)
    /\ Verifiable(last.request, last.now)
    /\ HasSubject(last.request)
    /\ last.request.forwarded_for # None
    /\ StartsWith(last.result.client_id, "api_key:")

\* The request carries a bearer token that is malformed, expired, of another
\* algorithm or wrongly signed, or one that verifies but has no subject.
BadBearer(request, now) ==
    /\ request.authorization # None
    /\ request.authorization[1].scheme = "Bearer "
    /\ ~(Verifiable(request, now) /\ HasSubject(request))

\* C18: a bad bearer token is treated as absent: the call does not raise and
\* returns what it returns for the same request without the Authorization
\* header, which is the ip: identity unless an API key is presented.
IdentityDegradation ==
    (Extracted /\ BadBearer(last.request, last.now)) =>
        /\ ~last.result.raised
        /\ last.result
               = ExtractClientId([last.request EXCEPT !.authorization = None],
                                 last.now)
        /\ ~Truthy(last.request.api_key) =>
               last.result.client_id = "ip:" \o GetClientIp(last.request)

\* A request with an expired token and no API key got its ip: identity from
\* the forwarded address.
IdentityDegradationWitness ==
    /\ Extracted
    /\ BadBearer(last.request, last.now)
    /\ last.request.authorization[1].token.payload.exp # None
    /\ last.request.authorization[1].token.signed_with = JWT_SECRET
    /\ ~Truthy(last.request.api_key)
    /\ last.result.client_id = "ip:10.0.0.1"

UserIdentityHashed ==
    (Extracted /\ ~Truthy(last.request.api_key)
       /\ Verifiable(last.request, last.now)
       /\ Truthy(last.request.authorization[1].token.payload.user_id)) =>
        /\ StartsWith(last.result.client_id, "user:")
        /\ Len(last.result.client_id) = Len("user:") + IDENTITY_HASH_LENGTH

\* C25: a denied check persists (refilled tokens, now) and consumes nothing;
\* after consecutive denied checks at non-decreasing times from a bucket
\* (tokens0, t0), the persisted tokens are
\* min(capacity, tokens0 + (tk - t0) * rate); the Decision reports those
\* tokens as remaining and, when rate > 0, the reset time
\* now + (tokensRequested - tokens) / rate.
DeniedCheckEffect ==
    /\ (CheckAnswered /\ ~last.result.passed) =>
           LET b == last.bucket_data
               now == last.current_time
               refilled == IF b.present
                           THEN Min(last.capacity * TicksPerSec,
                                    b.tokens + (now - b.last_refill)
                                                   * last.rate)
                           ELSE last.capacity * TicksPerSec
               needed == last.tokens_requested * TicksPerSec - refilled
           IN  /\ last.reply.tokens = refilled
               /\ last.result.remaining = IntOf(refilled)
               /\ last.rate > 0 =>
                      last.reply.reset_time.num * last.rate
                          = (now * last.rate + needed)
                                * last.reply.reset_time.den
               /\ NotExpiredSince =>
                      /\ store[last.key].present
                      /\ store[last.key].tokens = refilled
                      /\ store[last.key].last_refill = now
    /\ (win.active /\ ~win.expired /\ win.admitted = 0 /\ win.rate >= 0
          /\ win.t0 >= win.found.last_refill) =>
           /\ store[win.key].present
           /\ store[win.key].last_refill = win.tlast
           /\ store[win.key].tokens
                  = Min(win.capacity * TicksPerSec,
                        win.found.tokens
                            + (win.tlast - win.found.last_refill) * win.rate)

\* Two checks in a row were denied at different times and the partial
\* refill of both intervals is in the store.
DeniedCheckEffectWitness ==
    /\ win.active /\ ~win.expired
    /\ win.admitted = 0
    /\ win.n >= 2
    /\ win.rate > 0
    /\ win.found.last_refill < win.t0
    /\ win.t0 < win.tlast
    /\ store[win.key].tokens
           = win.found.tokens + (win.tlast - win.found.last_refill) * win.rate
    /\ store[win.key].tokens < win.capacity * TicksPerSec

\* C26: a check whose timestamp is earlier than the persisted lastRefill
\* uses elapsed = 0: its refill removes no tokens.
ElapsedClamp ==
    (CheckAnswered /\ last.bucket_data.present
       /\ last.current_time < last.bucket_data.last_refill) =>
        last.reply.tokens
            + (IF last.result.passed
               THEN last.tokens_requested * TicksPerSec ELSE 0)
            >= last.bucket_data.tokens

\* The check as one sequential step on a bucket: the decision, the tokens
\* left and the record it leaves.
SequentialCheck(bucket, rate, capacity, tokens_requested, now) ==
    LET before == IF bucket.present THEN bucket.tokens
                  ELSE capacity * TicksPerSec
        since == IF bucket.present THEN bucket.last_refill ELSE now
        refilled == Min(capacity * TicksPerSec, before + (now - since) * rate)
        passed == refilled >= tokens_requested * TicksPerSec
        left == IF passed THEN refilled - tokens_requested * TicksPerSec
                ELSE refilled
    IN  [passed |-> passed,
         tokens |-> left,
         record |-> [present |-> TRUE, tokens |-> left, last_refill |-> now,
                     ttl |-> REDIS_KEY_TTL]]

\* C27: every call of is_allowed that completes takes effect in one step of
\* the store, on the record the previous step left: its decision and the
\* record it writes are those of the sequential check with the caller's
\* timestamp, and no caller is ever between its read and its write.
PerKeyLinearizable ==
    [][\A p \in Procs :
          (pc[p] = "called" /\ pc'[p] = "idle") =>
              LET f == frame[p]
                  seq == SequentialCheck(store[f.key], f.rate, f.capacity,
                                         f.tokens_requested, f.current_time)
              IN  /\ \A q \in Procs : pc'[q] \in {"idle", "called"}
                  /\ \/ store' = store
                     \/ store' = [store EXCEPT ![f.key] = seq.record]
                  /\ (history = "last" /\ last'.outcome = "response") =>
                         /\ store' = [store EXCEPT ![f.key] = seq.record]
                         /\ last'.result.passed = seq.passed
                         /\ last'.reply.tokens = seq.tokens]_vars

\* A check was served after a check with a later timestamp on its key,
\* while another caller's check on that key is still in flight.
PerKeyLinearizableWitness ==
    /\ CheckAnswered
    /\ last.bucket_data.present
    /\ last.bucket_data.last_refill > last.current_time
    /\ \E p \in Procs : pc[p] = "called" /\ frame[p].key = last.key

\* C29: every record in the store has exactly the fields tokens and
\* last_refill and the TTL REDIS_KEY_TTL, and every check that runs the
\* script, admitted or denied, leaves such a record with the full TTL on its
\* key in that same step.
TtlOnEveryWrite ==
    /\ [](\A k \in Keys :
             store[k].present =>
                 /\ DOMAIN store[k]
                        = {"present", "tokens", "last_refill", "ttl"}
                 /\ store[k].ttl = REDIS_KEY_TTL)
    /\ [][\A p \in Procs :
             (pc[p] = "called" /\ pc'[p] = "idle"
                /\ (store' # store
                      \/ (history = "last" /\ last'.outcome = "response"))) =>
                 /\ store'[frame[p].key].present
                 /\ store'[frame[p].key].last_refill = frame[p].current_time
                 /\ store'[frame[p].key].ttl = REDIS_KEY_TTL]_vars

\* A denied check on a key that had a record left the record with the full
\* TTL.
TtlOnEveryWriteWitness ==
    /\ CheckAnswered
    /\ ~last.result.passed
    /\ last.bucket_data.present
    /\ store[last.key].present
    /\ store[last.key].last_refill = last.current_time
    /\ store[last.key].ttl = REDIS_KEY_TTL

\* C30: expiry and reset_bucket leave the key as a never-seen key is, and
\* the next check and the next status call on such a key see a full bucket
\* with lastRefill = now, whatever was consumed before.
ExpiryEqualsReset ==
    /\ [][/\ IdlePeriod => \A k \in Keys : store'[k] = Absent
          /\ \A p \in Procs, c \in ClientIds, r \in RuleIds :
                 ResetBucket(p, c, r) => store'[Key(c, r)] = Absent]_vars
    /\ []((CheckAnswered /\ ~last.bucket_data.present) =>
              /\ last.result.passed
                     <=> (last.tokens_requested <= last.capacity)
              /\ last.reply.tokens
                     = (IF last.result.passed
                        THEN last.capacity - last.tokens_requested
                        ELSE last.capacity) * TicksPerSec)
    /\ []((last.op = "get_bucket_status" /\ last.outcome = "response"
             /\ ~last.bucket_data.present) =>
              /\ last.result.tokens = default_capacity * TicksPerSec
              /\ last.result.last_refill <= clock
              /\ ticks + idles = 0 => last.result.last_refill = clock)

\* The record of a key expired between two checks that each consumed the
\* whole capacity, with no refill.
ExpiryEqualsResetWitness ==
    /\ win.active /\ win.expired
    /\ win.n = 2
    /\ win.rate = 0
    /\ win.admitted = 2 * win.capacity

\* C21: the address of the ip: identity is the first entry of
\* X-Forwarded-For when that header is present, else X-Real-IP, else the
\* peer's host, else "unknown".
AddressResolutionOrder ==
    (Extracted /\ ~Truthy(last.request.api_key)
       /\ ~(Verifiable(last.request, last.now) /\ HasSubject(last.request))) =>
        LET r == last.request
        IN  last.result.client_id
                = "ip:" \o (IF r.forwarded_for = Some(" 10.0.0.1 , 10.0.0.2")
                            THEN "10.0.0.1"
                            ELSE IF r.real_ip # None THEN r.real_ip[1]
                            ELSE IF r.client # None THEN r.client[1]
                            ELSE "unknown")

\* A request with all three address sources and no credentials got the
\* first forwarded address.
AddressResolutionOrderWitness ==
    /\ Extracted
    /\ last.request.api_key = None
    /\ last.request.authorization = None
    /\ last.request.forwarded_for # None
    /\ last.request.real_ip # None
    /\ last.request.client # None
    /\ last.result.client_id = "ip:10.0.0.1"

\* C28: the limiter without script reads and writes in separate store
\* operations: the record a call writes is the sequential check applied to
\* the bucket it read at HMGET, whatever the key holds when the pipeline
\* runs, so that concurrent calls on a key can all be admitted on the same
\* tokens and overwrite each other's records.
SimpleNotAtomic ==
    [][\A p \in Procs :
          (pc[p] = "execute" /\ pc'[p] = "idle" /\ last'.outcome = "response") =>
              LET f == frame[p]
                  seq == SequentialCheck(f.bucket_data, f.rate, f.capacity,
                                         f.tokens_requested, f.current_time)
              IN  /\ store'[f.key].tokens = seq.record.tokens
                  /\ store'[f.key].last_refill = seq.record.last_refill
                  /\ last'.result.passed = seq.passed]_vars

\* Two calls of cost 1 with the same timestamp were both admitted on a
\* fresh bucket of capacity 1, and the second wrote over the record of the
\* first.
SimpleNotAtomicWitness ==
    /\ win.active /\ win.fresh /\ win.unit
    /\ win.tlast = win.t0
    /\ win.admitted > win.capacity
    /\ last.op = "simple_is_allowed"
    /\ last.outcome = "response"
    /\ last.result.passed
    /\ ~last.bucket_data.present
    /\ last.overwritten.present

\* The last call was a request through the gateway whose check returned a
\* Decision.
GatewayDecided == last.op = "is_allowed" /\ last.path # None

\* C22: a request on a path that is not excluded is forwarded to the handler
\* only if its Decision has passed; a denied one is answered 429 without the
\* handler, with a body holding resetTime, limit and remaining of the
\* Decision; admitted and denied responses carry X-RateLimit-Limit,
\* X-RateLimit-Remaining and X-RateLimit-Reset of the Decision.
GatewayAdmission ==
    /\ GatewayDecided =>
           LET d == last.result
               r == last.response[1]
           IN  /\ last.path[1] \notin EXCLUDED_PATHS
               /\ r.forwarded = d.passed
               /\ {"X-RateLimit-Limit", "X-RateLimit-Remaining",
                   "X-RateLimit-Reset"} \subseteq DOMAIN r.headers
               /\ r.headers["X-RateLimit-Limit"] = ToString(d.limit)
               /\ r.headers["X-RateLimit-Remaining"] = ToString(d.remaining)
               /\ r.headers["X-RateLimit-Reset"] = ToString(d.resetTime)
               /\ ~d.passed =>
                      /\ r.status = 429
                      /\ r.body # None
                      /\ r.body[1].resetTime = d.resetTime
                      /\ r.body[1].limit = d.limit
                      /\ r.body[1].remaining = d.remaining
    /\ (last.op = "dispatch" /\ last.path[1] \notin EXCLUDED_PATHS) =>
           ~last.response[1].forwarded

\* A request on "/" was denied and answered 429 with the headers of a bucket
\* of capacity 1 without tokens.
GatewayAdmissionWitness ==
    /\ GatewayDecided
    /\ last.path = Some("/")
    /\ last.outcome = "response"
    /\ ~last.result.passed
    /\ last.response[1].status = 429
    /\ ~last.response[1].forwarded
    /\ last.response[1].headers["X-RateLimit-Limit"] = "1"
    /\ last.response[1].headers["X-RateLimit-Remaining"] = "0"

ExcludedBypass ==
    /\ []((last.op \in {"dispatch", "is_allowed"}
               /\ last.path # None /\ last.path[1] \in EXCLUDED_PATHS) =>
              /\ last.op = "dispatch"
              /\ ~last.checked
              /\ last.response[1].forwarded
              /\ last.response[1].status # 429)
    /\ [](\A p \in Procs :
              pc[p] = "called" =>
                  (frame[p].path = None
                       \/ frame[p].path[1] \notin EXCLUDED_PATHS))
    /\ [][(budget' # budget /\ pc' = pc /\ last'.op = "dispatch"
               /\ last'.path[1] \in EXCLUDED_PATHS) =>
              \A k \in Keys :
                  \/ store'[k] = store[k]
                  \/ /\ last'.path[1] = "/rate-limit/reset"
                     /\ store'[k] = Absent]_vars

\* The status of a bucket that was emptied was asked while the store was
\* failing, and the request was served.
ExcludedBypassWitness ==
    /\ last.op = "dispatch"
    /\ last.path = Some("/rate-limit/status")
    /\ last.failing
    /\ rate_limiter
    /\ last.response[1].forwarded
    /\ last.response[1].status = 200
    /\ \E k \in Keys : store[k].present /\ store[k].tokens = 0

\* C31: a check, a status read or a reset on a key changes no record but
\* that key's, the same client's records under other rules included; the
\* keys of distinct (client, rule) pairs are distinct; records otherwise
\* change only by expiry.
KeyIsolation ==
    /\ [](\A c1, c2 \in IsolationClientIds, r1, r2 \in IsolationRuleIds :
              Key(c1, r1) = Key(c2, r2) => (c1 = c2 /\ r1 = r2))
    /\ [][\A k \in Keys :
              store'[k] # store[k] =>
                  \/ idles' # idles
                  \/ \E p \in Procs : /\ pc[p] = "called"
                                      /\ pc'[p] = "idle"
                                      /\ frame[p].key = k
                  \/ /\ budget' # budget
                     /\ last'.op = "reset_bucket"
                     /\ last'.key = k]_vars

\* A check of client u1 under rule "search" is admitted on a fresh bucket
\* while u1's bucket under rule "default" and u2's bucket under rule
\* "search" stay empty.
KeyIsolationWitness ==
    /\ last.op = "is_allowed"
    /\ last.outcome = "response"
    /\ last.key = Key("u1", "search")
    /\ last.result.passed
    /\ ~last.bucket_data.present
    /\ store[Key("u1", "default")].present
    /\ store[Key("u1", "default")].tokens = 0
    /\ store[Key("u2", "search")].present
    /\ store[Key("u2", "search")].tokens = 0
    /\ last.current_time = store[Key("u1", "default")].last_refill

\* floor(x) of an amount x given in units of 1/TicksPerSec.
FloorOf(units) == units \div TicksPerSec

NoFailurePropagation ==
    last.op = "is_allowed" =>
        /\ last.outcome \in {"response", "fallback"}
        /\ "result" \in DOMAIN last
        /\ last.result.passed \in BOOLEAN

\* C34: get_bucket_status reports the amount an is_allowed call on the key
\* would compute at that instant before it consumes: the full bucket for a
\* key without record, and for a record the refill of the stored amount
\* under the rule the record was last written with, an amount of exactly 0
\* and a rule given per call included.
StatusProjection ==
    [][(budget' # budget /\ pc' = pc /\ last'.op = "get_bucket_status"
            /\ last'.outcome = "response") =>
          LET b == last'.bucket_data
          IN  /\ ~b.present =>
                     last'.result.tokens = default_capacity * TicksPerSec
              /\ (/\ b.present
                  /\ last.op = "is_allowed"
                  /\ last.outcome = "response"
                  /\ last.key = last'.key
                  /\ b.tokens = last.reply.tokens
                  /\ b.last_refill = last.current_time) =>
                     last'.result.tokens
                         = RefillTokens(b.tokens, b.last_refill, last.rate,
                                        last.capacity, clock)]_vars

\* C35: with a default rate of 0 or less, get_bucket_status answers from
\* its projection whenever the store answered, never from the except
\* branch, and its resetTimeEpoch is int(now + 31536000).
StatusWithoutRefill ==
    [][(budget' # budget /\ pc' = pc /\ last'.op = "get_bucket_status"
            /\ last'.outcome = "response" /\ default_rate <= 0) =>
          /\ last'.result.has_reset
          /\ last'.result.resetTimeEpoch
                 = IntDiv(clock + FAR_FUTURE * TicksPerSec, TicksPerSec)
          /\ last'.result.last_refill
                 = IF last'.bucket_data.present
                   THEN last'.bucket_data.last_refill ELSE clock]_vars

\* The status of an emptied bucket was read under a default rate of 0:
\* less than one token, no refill, reset a year ahead.
StatusWithoutRefillWitness ==
    /\ last.op = "get_bucket_status"
    /\ last.outcome = "response"
    /\ default_rate = 0
    /\ last.bucket_data.present
    /\ last.result.tokens = 0
    /\ last.result.has_reset
    /\ last.result.resetTimeEpoch >= FAR_FUTURE

ResetTimeSufficient ==
    (/\ CheckAnswered
     /\ ~last.result.passed
     /\ last.rate > 0
     /\ last.tokens_requested <= last.capacity) =>
        /\ last.result.resetTime * TicksPerSec >= last.current_time
        /\ RefillTokens(last.reply.tokens, last.current_time, last.rate,
                        last.capacity, last.result.resetTime * TicksPerSec)
               >= last.tokens_requested * TicksPerSec

\* C38: a denied check persists the refilled amount with its timestamp, so
\* that no refill is lost, and a caller that polls with rate > 0 and a cost
\* within the capacity is admitted after every denial whose reset time lies
\* within the ticks the run covers, however often it polls in between.
NoStarvationByPolling ==
    /\ [][(pc["p1"] = "called" /\ pc'["p1"] = "idle"
               /\ ~last'.result.passed) =>
              LET f == frame["p1"]
                  b == store[f.key]
              IN  /\ store'[f.key].last_refill = f.current_time
                  /\ store'[f.key].tokens
                         = RefillTokens(BucketTokens(b, f.capacity),
                                        BucketLastRefill(b, f.current_time),
                                        f.rate, f.capacity,
                                        f.current_time)]_vars
    /\ (/\ CheckAnswered
        /\ ~last.result.passed
        /\ last.rate > 0
        /\ last.tokens_requested <= last.capacity
        /\ last.reply.reset_time.num
               <= MaxPollTicks * last.reply.reset_time.den)
           ~> (CheckAnswered /\ last.result.passed)

\* The caller's request of cost 2 was denied three times in a row, one tick
\* apart, and admitted at the fourth poll, when the bucket had refilled.
NoStarvationByPollingWitness ==
    /\ CheckAnswered
    /\ last.result.passed
    /\ last.tokens_requested = 2
    /\ last.bucket_data.present
    /\ last.bucket_data.tokens = 3
    /\ last.bucket_data.last_refill = last.current_time - 1
    /\ store[last.key].tokens = 0

\* C39: two checks in flight on one store key are checks of one identity
\* under one rule: distinct (identity, rule) pairs never meet on a key,
\* identities with the separator in them included.
KeyInjective ==
    \A p, q \in Procs :
        (/\ pc[p] = "called"
         /\ pc[q] = "called"
         /\ frame[p].key = frame[q].key) =>
            /\ frame[p].client_id = frame[q].client_id
            /\ frame[p].rule_id = frame[q].rule_id

\* C40: of the requests one client sends to rate-limited paths of the
\* gateway with timestamps in a window [t0, t1], requests to the admin
\* endpoints in between included, at most capacity + rate * (t1 - t0) are
\* forwarded to handlers (each costs one token and is forwarded iff it is
\* admitted).
GatewayQuota ==
    (rate_limiter /\ win.active) =>
        win.admitted * TicksPerSec
            <= win.capacity * TicksPerSec + win.rate * (win.tlast - win.t0)

====
